---- MODULE Spec2Model ----
(***************************************************************************)
(* Model of example/python_client.py, the XML-RPC example client.          *)
(*                                                                         *)
(* The script is a straight-line client of Python 2's xmlrpclib: it builds *)
(* a MultiCall batch of three calls, dispatches it, prints the results,    *)
(* then performs one dynamic call and prints its result.  The model keeps  *)
(* one action per statement of the script (named after its line), and the  *)
(* xmlrpclib operations the statements invoke are operators used by these  *)
(* actions:                                                                *)
(*   _MultiCallMethod.__call__   call_list.append((name, args))            *)
(*   MultiCall.__call__          one system.multicall request carrying the *)
(*                               whole call list, wrapped in an iterator   *)
(*   MultiCallIterator.__getitem__  a dict item raises Fault, a list item  *)
(*                               yields item[0], IndexError ends the loop  *)
(*   ServerProxy.__request       one request, the decoded value or Fault   *)
(*                                                                         *)
(* Several properties of the specification quantify over every batch and   *)
(* every method name, so the same library operations are also driven by an *)
(* arbitrary caller (client = "any"), besides the script itself            *)
(* (client = "script").                                                    *)
(*                                                                         *)
(* Doubles are modelled in tenths (12.3 is 123).  Every XML-RPC value is a *)
(* record of one shape, so that values of different types can be compared. *)
(***************************************************************************)
EXTENDS Integers, Sequences, FiniteSets, TLC

(* ------------------------------ bounds -------------------------------- *)
\* largest number of command-line arguments after the script name
MaxArgs == 2
\* random.random() draws from 0 .. MaxDouble (tenths)
MaxDouble == 1
\* the arbitrary caller appends at most MaxCalls calls to its batch
MaxCalls == 2
\* the arbitrary caller sends at most MaxRequests requests
MaxRequests == 2

(* --------------------------- program constants ------------------------ *)
\* line 16: xrange(5)
NumDoubles == 5
\* line 5: the endpoint used when no argument is given
DefaultEndpoint == "http://localhost:8000"
\* sys.argv[0]
ScriptName == "python_client.py"

(* ------------------------------ values -------------------------------- *)
IntV(n) == [t |-> "int", i |-> n, s |-> "", l |-> << >>]
BoolV(b) == [t |-> "boolean", i |-> IF b THEN 1 ELSE 0, s |-> "", l |-> << >>]
DoubleV(d) == [t |-> "double", i |-> d, s |-> "", l |-> << >>]
StrV(x) == [t |-> "string", i |-> 0, s |-> x, l |-> << >>]
\* an array of numbers; s holds the element type
ArrV(et, xs) == [t |-> "array", i |-> 0, s |-> et, l |-> xs]
\* Python's None
NoneV == [t |-> "nil", i |-> 0, s |-> "", l |-> << >>]

Call(name, params) == [methodName |-> name, params |-> params]

\* the endpoints a user may pass on the command line
ArgUrls == {"https://b:8443", "ftp://c"}

\* urllib.splittype(uri)[0], over the endpoints of the model
SplitType(uri) ==
    CASE uri = "http://localhost:8000" -> "http"
      [] uri = "https://b:8443" -> "https"
      [] uri = "ftp://c" -> "ftp"
      [] OTHER -> ""

\* all sequences over S of length at most n
RECURSIVE SeqsUpTo(_, _)
SeqsUpTo(S, n) ==
    IF n = 0 THEN {<< >>}
    ELSE LET shorter == SeqsUpTo(S, n - 1)
         IN  shorter \cup {Append(q, x) : q \in shorter, x \in S}

(* --------------------------- exceptions ------------------------------- *)
\* The exception a step raised.  The names are those of the error taxonomy:
\* TransportError is socket.error, ProtocolError is xmlrpclib.ProtocolError or
\* an expat error, RemoteFault is xmlrpclib.Fault, IOError is ServerProxy's
\* "unsupported XML-RPC protocol".
NoExc == [type |-> "", faultCode |-> 0, faultString |-> ""]
Exc(type) == [type |-> type, faultCode |-> 0, faultString |-> ""]
Fault(code, msg) == [type |-> "RemoteFault", faultCode |-> code, faultString |-> msg]

(* ------------------------------ wire ---------------------------------- *)
\* an element of a system.multicall reply: [value] or {faultCode, faultString}
ValueItem(v) == [kind |-> "list", value |-> v, faultCode |-> 0, faultString |-> ""]
FaultItem(code, msg) == [kind |-> "dict", value |-> NoneV, faultCode |-> code, faultString |-> msg]

\* what a round trip produces for the client
OkReply(v, items) ==
    [status |-> "ok", value |-> v, items |-> items, faultCode |-> 0, faultString |-> ""]
FaultReply(code, msg) ==
    [status |-> "fault", value |-> NoneV, items |-> << >>, faultCode |-> code, faultString |-> msg]
FailReply(how) ==
    [status |-> how, value |-> NoneV, items |-> << >>, faultCode |-> 0, faultString |-> ""]
NoReply == FailReply("none")

(* -------------------------- xmlrpclib: client ------------------------- *)
\* mutant: the new call is put in front of the batch
MultiCallAppendFront(call_list, name, params) == <<Call(name, params)>> \o call_list

\* _MultiCallMethod.__call__: self.__call_list.append((self.__name, args))
MultiCallAppend(call_list, name, params) == Append(call_list, Call(name, params))

\* mutant: the positional arguments are sent in reverse order
ProxyRequestReversed(uri, name, params) ==
    [url |-> uri, methodName |-> name,
     params |-> [k \in 1..Len(params) |-> params[Len(params) + 1 - k]],
     calls |-> << >>]

\* ServerProxy.__request(methodname, params): dumps(params, methodname), one
\* POST to the proxy's uri.  No table of known methods is consulted.
ProxyRequest(uri, name, params) ==
    [url |-> uri, methodName |-> name, params |-> params, calls |-> << >>]

\* MultiCall.__call__: marshalled_list holds {'methodName', 'params'} for each
\* entry of the call list, in order; server.system.multicall(marshalled_list)
MultiCallRequest(uri, call_list) ==
    [url |-> uri, methodName |-> "system.multicall", params |-> << >>,
     calls |-> [k \in 1..Len(call_list) |->
                   Call(call_list[k].methodName, call_list[k].params)]]

\* mutant: a fault reported by the server is swallowed and None returned
RequestOutcomeSwallow(reply) ==
    IF reply.status = "ok" THEN NoExc
    ELSE IF reply.status = "fault" THEN NoExc
    ELSE IF reply.status = "transport" THEN Exc("TransportError")
    ELSE Exc("ProtocolError")

\* the exception ServerProxy.__request raises for a reply (NoExc: it returns)
RequestOutcome(reply) ==
    IF reply.status = "ok" THEN NoExc
    ELSE IF reply.status = "fault" THEN Fault(reply.faultCode, reply.faultString)
    ELSE IF reply.status = "transport" THEN Exc("TransportError")
    ELSE Exc("ProtocolError")

\* MultiCallIterator.__getitem__(i) (i counted from 0): the exception it raises
GetItemExc(results, i) ==
    IF i >= Len(results) THEN Exc("IndexError")
    ELSE IF results[i + 1].kind = "dict"
         THEN Fault(results[i + 1].faultCode, results[i + 1].faultString)
    ELSE IF results[i + 1].kind = "list" THEN NoExc
    ELSE Exc("ValueError")

\* MultiCallIterator.__getitem__(i): the value it returns, item[0]
GetItemValue(results, i) ==
    IF i < Len(results) /\ results[i + 1].kind = "list"
    THEN results[i + 1].value ELSE NoneV

(* ------------------------- the remote server -------------------------- *)
\* xs with x inserted before the first element that must follow it
RECURSIVE Insert(_, _, _)
Insert(x, xs, asc) ==
    IF xs = << >> THEN <<x>>
    ELSE IF (asc /\ x <= Head(xs)) \/ (~asc /\ x >= Head(xs)) THEN <<x>> \o xs
    ELSE <<Head(xs)>> \o Insert(x, Tail(xs), asc)

\* xs sorted, ascending when asc and descending otherwise
RECURSIVE SortDoubles(_, _)
SortDoubles(xs, asc) ==
    IF xs = << >> THEN << >> ELSE Insert(Head(xs), SortDoubles(Tail(xs), asc), asc)

\* what superDynamicMethod may compute
DynamicResults == {StrV("dynamic"), IntV(0)}

\* the values the server's method table may compute for a call; empty for a
\* name or an argument list it does not serve
ServerValues(call) ==
    LET p == call.params IN
    IF call.methodName = "swapTwoIntegers" /\ Len(p) = 2
          /\ p[1].t = "int" /\ p[2].t = "int"
    THEN {ArrV("int", <<p[2].i, p[1].i>>)}
    ELSE IF call.methodName = "sortSomeDoubles" /\ Len(p) = 2
          /\ p[1].t = "array" /\ p[2].t = "boolean"
    THEN {ArrV("double", SortDoubles(p[1].l, p[2].i = 1))}
    ELSE IF call.methodName = "superDynamicMethod"
    THEN DynamicResults
    ELSE {}

\* the fault the server reports for a call: unknown method, or a failure of
\* the method itself
ServerFault(call) ==
    IF ServerValues(call) = {} THEN [code |-> -32601, msg |-> call.methodName]
    ELSE [code |-> -32500, msg |-> call.methodName]

\* the elements a multicall reply may hold for one call of the batch
ServerItems(call) ==
    {ValueItem(v) : v \in ServerValues(call)}
        \cup {FaultItem(ServerFault(call).code, ServerFault(call).msg)}

\* the replies to system.multicall: one element per call, in call order
MultiCallReplies(calls) ==
    LET all == UNION {ServerItems(calls[k]) : k \in 1..Len(calls)}
    IN  {OkReply(NoneV, items) :
            items \in {q \in [1..Len(calls) -> all] :
                          \A k \in 1..Len(calls) : q[k] \in ServerItems(calls[k])}}

\* the replies of the server to a request
ServerReplies(req) ==
    IF req.methodName = "system.multicall"
    THEN MultiCallReplies(req.calls) \cup {FaultReply(-32500, req.methodName)}
    ELSE LET call == Call(req.methodName, req.params)
         IN  {OkReply(v, << >>) : v \in ServerValues(call)}
                \cup {FaultReply(ServerFault(call).code, ServerFault(call).msg)}

\* the ways the blocking round trip of a request may end: a reply of the
\* server, a connection failure, or a body that cannot be decoded
RoundTrips(req) ==
    ServerReplies(req) \cup {FailReply("transport"), FailReply("protocol")}

(* ------------------------------ state --------------------------------- *)
VARIABLES
    client,       \* "script": python_client.py; "any": an arbitrary caller
    argv,         \* sys.argv; argv[1] is Python's sys.argv[0]
    endpoint,     \* line 5
    pc,           \* the statement to execute next
    call_list,    \* MultiCall.__call_list
    someDoubles,  \* line 16
    net,          \* the requests in flight
    results,      \* MultiCallIterator.results
    idx,          \* the index of the for loop of line 20
    res,          \* the loop variable of line 20
    result,       \* line 26
    out,          \* the values printed, in order
    exitCode,     \* -1 while running, then the exit status of the process
    exc,          \* the exception raised by the last operation
    got,          \* the arbitrary caller's last indexed access
    hist,         \* history: the calls appended to the batch, in order
    sent,         \* history: the requests sent, in order
    asked,        \* history: the call of the last direct proxy call
    lastReply,    \* history: how the last round trip ended
    failedAt      \* history: the statement that raised the uncaught exception

vars == <<client, argv, endpoint, pc, call_list, someDoubles, net, results, idx,
          res, result, out, exitCode, exc, got, hist, sent, asked, lastReply,
          failedAt>>

NoCall == Call("", << >>)
NoGot == [pos |-> -1, value |-> NoneV]

\* line 14
SwapCall == Call("swapTwoIntegers", <<IntV(42), IntV(-73)>>)
\* lines 17 and 18
SortCall(doubles, asc) == Call("sortSomeDoubles", <<ArrV("double", doubles), BoolV(asc)>>)
\* line 26; 12.3 is 123 tenths
DynamicCall ==
    Call("superDynamicMethod",
         <<StrV("The string"), BoolV(TRUE), BoolV(FALSE), DoubleV(123), IntV(42)>>)

\* the calls the arbitrary caller makes
ApiCalls == {Call("swapTwoIntegers", <<IntV(1), IntV(2)>>),
             Call("noSuchMethod", <<IntV(7)>>)}

Init ==
    /\ client \in {"script", "any"}
    /\ argv \in {<<ScriptName>> \o a : a \in SeqsUpTo(ArgUrls, MaxArgs)}
    /\ IF client = "script"
       THEN pc = "l5" /\ endpoint = ""
       ELSE pc = "api" /\ endpoint = DefaultEndpoint /\ argv = <<ScriptName>>
    /\ call_list = << >>
    /\ someDoubles = << >>
    /\ net = << >>
    /\ results = << >>
    /\ idx = 0
    /\ res = NoneV
    /\ result = NoneV
    /\ out = << >>
    /\ exitCode = -1
    /\ exc = NoExc
    /\ got = NoGot
    /\ hist = << >>
    /\ sent = << >>
    /\ asked = NoCall
    /\ lastReply = NoReply
    /\ failedAt = ""

\* an exception nothing catches: the traceback is printed and the process
\* exits with status 1
Uncaught(e) ==
    /\ exc' = e
    /\ pc' = "failed"
    /\ exitCode' = 1
    /\ failedAt' = pc

\* the statement completes and control passes to statement next
Goto(next) ==
    /\ pc' = next
    /\ UNCHANGED <<exc, exitCode, failedAt>>

\* request req is written to the connection
Send(req) ==
    /\ net' = Append(net, req)
    /\ sent' = Append(sent, req)

(* --------------------------- the script ------------------------------- *)
\* mutant: the last argument is taken instead of the first
Line5Last ==
    /\ pc = "l5"
    /\ endpoint' = IF Len(argv) > 1 THEN argv[Len(argv)] ELSE DefaultEndpoint
    /\ Goto("l7")
    /\ UNCHANGED <<client, argv, call_list, someDoubles, net, results, idx, res,
                   result, out, got, hist, sent, asked, lastReply>>

\* endpoint = sys.argv[1] if len(sys.argv) > 1 else 'http://localhost:8000'
Line5 ==
    /\ pc = "l5"
    /\ endpoint' = IF Len(argv) > 1 THEN argv[2] ELSE DefaultEndpoint
    /\ Goto("l7")
    /\ UNCHANGED <<client, argv, call_list, someDoubles, net, results, idx, res,
                   result, out, got, hist, sent, asked, lastReply>>

\* proxy = xmlrpclib.ServerProxy(endpoint): IOError("unsupported XML-RPC
\* protocol") unless the scheme is http or https; nothing is sent
Line7 ==
    /\ pc = "l7"
    /\ IF SplitType(endpoint) \in {"http", "https"}
       THEN Goto("l12") ELSE Uncaught(Exc("IOError"))
    /\ UNCHANGED <<client, argv, endpoint, call_list, someDoubles, net, results,
                   idx, res, result, out, got, hist, sent, asked, lastReply>>

\* multicall = xmlrpclib.MultiCall(proxy): an empty call list
Line12 ==
    /\ pc = "l12"
    /\ call_list' = << >>
    /\ Goto("l14")
    /\ UNCHANGED <<client, argv, endpoint, someDoubles, net, results, idx, res,
                   result, out, got, hist, sent, asked, lastReply>>

\* mutant: the call is sent at once, as a call on the proxy would be
AppendStmtEager(at, call, next) ==
    /\ pc = at
    /\ call_list' = MultiCallAppend(call_list, call.methodName, call.params)
    /\ hist' = Append(hist, call)
    /\ sent' = Append(sent, ProxyRequest(endpoint, call.methodName, call.params))
    /\ Goto(next)
    /\ UNCHANGED <<client, argv, endpoint, someDoubles, net, results, idx, res,
                   result, out, got, asked, lastReply>>

\* a statement multicall.name(args): the call is recorded, nothing is sent
AppendStmt(at, call, next) ==
    /\ pc = at
    /\ call_list' = MultiCallAppend(call_list, call.methodName, call.params)
    /\ hist' = Append(hist, call)
    /\ Goto(next)
    /\ UNCHANGED <<client, argv, endpoint, someDoubles, net, results, idx, res,
                   result, out, got, sent, asked, lastReply>>

\* multicall.swapTwoIntegers(42, -73)
Line14 == AppendStmt("l14", SwapCall, "l16")

\* someDoubles = [random.random() for _ in xrange(5)]
Line16 ==
    /\ pc = "l16"
    /\ someDoubles' \in [1..NumDoubles -> 0..MaxDouble]
    /\ Goto("l17")
    /\ UNCHANGED <<client, argv, endpoint, call_list, net, results, idx, res,
                   result, out, got, hist, sent, asked, lastReply>>

\* multicall.sortSomeDoubles(someDoubles, True)
Line17 == AppendStmt("l17", SortCall(someDoubles, TRUE), "l18")

\* mutant: the second sort is asked ascending too
Line18Ascending == AppendStmt("l18", SortCall(someDoubles, TRUE), "l20")

\* multicall.sortSomeDoubles(someDoubles, False)
Line18 == AppendStmt("l18", SortCall(someDoubles, FALSE), "l20")

\* mutant: the dynamic request is written before the multicall reply is read
Line20CallPipelined ==
    /\ pc = "l20"
    /\ net' = net \o <<MultiCallRequest(endpoint, call_list),
                       ProxyRequest(endpoint, DynamicCall.methodName, DynamicCall.params)>>
    /\ sent' = sent \o <<MultiCallRequest(endpoint, call_list),
                         ProxyRequest(endpoint, DynamicCall.methodName, DynamicCall.params)>>
    /\ Goto("l20w")
    /\ UNCHANGED <<client, argv, endpoint, call_list, someDoubles, results, idx,
                   res, result, out, got, hist, asked, lastReply>>

\* multicall(), first half: the one system.multicall request is sent and the
\* script blocks
Line20Call ==
    /\ pc = "l20"
    /\ Send(MultiCallRequest(endpoint, call_list))
    /\ Goto("l20w")
    /\ UNCHANGED <<client, argv, endpoint, call_list, someDoubles, results, idx,
                   res, result, out, got, hist, asked, lastReply>>

\* multicall(), second half: the round trip ends; the reply's list becomes
\* the MultiCallIterator the for loop walks, or the exception ends the script
Line20Return ==
    /\ pc = "l20w"
    /\ \E reply \in RoundTrips(Head(net)) :
          /\ lastReply' = reply
          /\ net' = Tail(net)
          /\ IF RequestOutcome(reply) = NoExc
             THEN results' = reply.items /\ idx' = 0 /\ Goto("l20i")
             ELSE Uncaught(RequestOutcome(reply)) /\ UNCHANGED <<results, idx>>
    /\ UNCHANGED <<client, argv, endpoint, call_list, someDoubles, res, result,
                   out, got, hist, sent, asked>>

\* mutant: a faulting element is skipped and the loop goes on
Line20NextSkipFault ==
    /\ pc = "l20i"
    /\ IF GetItemExc(results, idx).type = "IndexError"
       THEN Goto("l26") /\ UNCHANGED <<res, idx>>
       ELSE IF GetItemExc(results, idx) = NoExc
       THEN res' = GetItemValue(results, idx) /\ idx' = idx + 1 /\ Goto("l21")
       ELSE idx' = idx + 1 /\ Goto("l20i") /\ UNCHANGED res
    /\ UNCHANGED <<client, argv, endpoint, call_list, someDoubles, net, results,
                   result, out, got, hist, sent, asked, lastReply>>

\* for res in <iterator>: the loop asks for element idx; IndexError ends the
\* loop, any other exception (the Fault of a faulting element) is not caught
Line20Next ==
    /\ pc = "l20i"
    /\ IF GetItemExc(results, idx).type = "IndexError"
       THEN Goto("l26") /\ UNCHANGED <<res, idx>>
       ELSE IF GetItemExc(results, idx) = NoExc
       THEN res' = GetItemValue(results, idx) /\ idx' = idx + 1 /\ Goto("l21")
       ELSE Uncaught(GetItemExc(results, idx)) /\ UNCHANGED <<res, idx>>
    /\ UNCHANGED <<client, argv, endpoint, call_list, someDoubles, net, results,
                   result, out, got, hist, sent, asked, lastReply>>

\* print res
Line21 ==
    /\ pc = "l21"
    /\ out' = Append(out, res)
    /\ Goto("l20i")
    /\ UNCHANGED <<client, argv, endpoint, call_list, someDoubles, net, results,
                   idx, res, result, got, hist, sent, asked, lastReply>>

\* proxy.superDynamicMethod('The string', True, False, 12.3, 42), first half:
\* the request is sent and the script blocks
Line26Call ==
    /\ pc = "l26"
    /\ asked' = DynamicCall
    /\ Send(ProxyRequest(endpoint, DynamicCall.methodName, DynamicCall.params))
    /\ Goto("l26w")
    /\ UNCHANGED <<client, argv, endpoint, call_list, someDoubles, results, idx,
                   res, result, out, got, hist, lastReply>>

\* second half: result is the decoded value, or the exception ends the script
Line26Return ==
    /\ pc = "l26w"
    /\ \E reply \in RoundTrips(Head(net)) :
          /\ lastReply' = reply
          /\ net' = Tail(net)
          /\ IF RequestOutcome(reply) = NoExc
             THEN result' = reply.value /\ Goto("l27")
             ELSE Uncaught(RequestOutcome(reply)) /\ UNCHANGED result
    /\ UNCHANGED <<client, argv, endpoint, call_list, someDoubles, results, idx,
                   res, out, got, hist, sent, asked>>

\* print result, and the end of the script: exit status 0
Line27 ==
    /\ pc = "l27"
    /\ out' = Append(out, result)
    /\ pc' = "done"
    /\ exitCode' = 0
    /\ UNCHANGED <<client, argv, endpoint, call_list, someDoubles, net, results,
                   idx, res, result, exc, got, hist, sent, asked, lastReply,
                   failedAt>>

(* ------------------------ an arbitrary caller ------------------------- *)
\* multicall.name(args) for any name and arguments
ApiAppend ==
    /\ pc = "api"
    /\ Len(call_list) < MaxCalls
    /\ \E call \in ApiCalls :
          /\ call_list' = MultiCallAppend(call_list, call.methodName, call.params)
          /\ hist' = Append(hist, call)
    /\ exc' = NoExc
    /\ UNCHANGED <<client, argv, endpoint, pc, someDoubles, net, results, idx, res,
                   result, out, exitCode, got, sent, asked, lastReply, failedAt>>

\* mutant: dispatch empties the batch
ApiDispatchConsume ==
    /\ pc = "api"
    /\ Len(sent) < MaxRequests
    /\ Send(MultiCallRequest(endpoint, call_list))
    /\ call_list' = << >>
    /\ pc' = "api_mc"
    /\ exc' = NoExc
    /\ UNCHANGED <<client, argv, endpoint, someDoubles, results, idx, res,
                   result, out, exitCode, got, hist, asked, lastReply, failedAt>>

\* multicall(), first half, at any time: also for an empty batch and for a
\* batch that was dispatched before.  The call list is neither checked nor
\* cleared.
ApiDispatch ==
    /\ pc = "api"
    /\ Len(sent) < MaxRequests
    /\ Send(MultiCallRequest(endpoint, call_list))
    /\ pc' = "api_mc"
    /\ exc' = NoExc
    /\ UNCHANGED <<client, argv, endpoint, call_list, someDoubles, results, idx,
                   res, result, out, exitCode, got, hist, asked, lastReply,
                   failedAt>>

\* mutant: an empty reply list is taken for a missing reply
ApiDispatchReturnRejectEmpty ==
    /\ pc = "api_mc"
    /\ \E reply \in RoundTrips(Head(net)) :
          /\ lastReply' = reply
          /\ net' = Tail(net)
          /\ exc' = IF RequestOutcome(reply) = NoExc /\ reply.items = << >>
                    THEN Exc("ProtocolError") ELSE RequestOutcome(reply)
          /\ results' = IF RequestOutcome(reply) = NoExc THEN reply.items ELSE << >>
    /\ pc' = "api"
    /\ UNCHANGED <<client, argv, endpoint, call_list, someDoubles, idx, res,
                   result, out, exitCode, got, hist, sent, asked, failedAt>>

\* multicall(), second half: the iterator over the reply, or the exception,
\* which this caller catches
ApiDispatchReturn ==
    /\ pc = "api_mc"
    /\ \E reply \in RoundTrips(Head(net)) :
          /\ lastReply' = reply
          /\ net' = Tail(net)
          /\ exc' = RequestOutcome(reply)
          /\ results' = IF RequestOutcome(reply) = NoExc THEN reply.items ELSE << >>
    /\ pc' = "api"
    /\ UNCHANGED <<client, argv, endpoint, call_list, someDoubles, idx, res,
                   result, out, exitCode, got, hist, sent, asked, failedAt>>

\* iterator[j] for any index j
ApiGetItem ==
    /\ pc = "api"
    /\ lastReply.status = "ok"
    /\ \E j \in 0..Len(results) :
          /\ exc' = GetItemExc(results, j)
          /\ got' = [pos |-> j, value |-> GetItemValue(results, j)]
    /\ UNCHANGED <<client, argv, endpoint, pc, call_list, someDoubles, net,
                   results, idx, res, result, out, exitCode, hist, sent, asked,
                   lastReply, failedAt>>

\* proxy.name(args) for any name, first half
ApiCall ==
    /\ pc = "api"
    /\ Len(sent) < MaxRequests
    /\ \E call \in ApiCalls \cup {DynamicCall} :
          /\ asked' = call
          /\ Send(ProxyRequest(endpoint, call.methodName, call.params))
    /\ pc' = "api_call"
    /\ exc' = NoExc
    /\ UNCHANGED <<client, argv, endpoint, call_list, someDoubles, results, idx,
                   res, result, out, exitCode, got, hist, lastReply, failedAt>>

\* proxy.name(args), second half: the value, or the exception, which this
\* caller catches
ApiCallReturn ==
    /\ pc = "api_call"
    /\ \E reply \in RoundTrips(Head(net)) :
          /\ lastReply' = reply
          /\ net' = Tail(net)
          /\ exc' = RequestOutcome(reply)
          /\ result' = IF RequestOutcome(reply) = NoExc THEN reply.value ELSE NoneV
    /\ pc' = "api"
    /\ UNCHANGED <<client, argv, endpoint, call_list, someDoubles, results, idx,
                   res, out, exitCode, got, hist, sent, asked, failedAt>>

Next ==
    \/ Line5
    \/ Line7
    \/ Line12
    \/ Line14
    \/ Line16
    \/ Line17
    \/ Line18
    \/ Line20Call
    \/ Line20Return
    \/ Line20Next
    \/ Line21
    \/ Line26Call
    \/ Line26Return
    \/ Line27
    \/ ApiAppend
    \/ ApiDispatch
    \/ ApiDispatchReturn
    \/ ApiGetItem
    \/ ApiCall
    \/ ApiCallReturn

Spec == Init /\ [][Next]_vars

(* ------------------------- helpers of the claims ---------------------- *)
\* the positions of sent that hold a system.multicall request
MultiSent == {k \in 1..Len(sent) : sent[k].methodName = "system.multicall"}

\* the position of the first faulting element of items, Len(items) + 1 if none
FirstFault(items) ==
    IF \E k \in 1..Len(items) : items[k].kind = "dict"
    THEN CHOOSE k \in 1..Len(items) :
            /\ items[k].kind = "dict"
            /\ \A j \in 1..(k - 1) : items[j].kind # "dict"
    ELSE Len(items) + 1

NonDecreasing(xs) == \A k \in 1..(Len(xs) - 1) : xs[k] <= xs[k + 1]
NonIncreasing(xs) == \A k \in 1..(Len(xs) - 1) : xs[k] >= xs[k + 1]
Count(xs, x) == Cardinality({k \in 1..Len(xs) : xs[k] = x})
IsPerm(xs, ys) ==
    /\ Len(xs) = Len(ys)
    /\ \A k \in 1..Len(xs) : Count(xs, xs[k]) = Count(ys, xs[k])

\* the steps of the model, recognised by the statement they leave
DispatchStep == pc \in {"l20", "api"} /\ pc' \in {"l20w", "api_mc"}
DispatchReturnStep == pc \in {"l20w", "api_mc"} /\ pc' # pc
CallStep == pc \in {"l26", "api"} /\ pc' \in {"l26w", "api_call"}
CallReturnStep == pc \in {"l26w", "api_call"} /\ pc' # pc
GetItemStep == pc = "api" /\ pc' = "api" /\ hist' = hist
AppendStep == hist' # hist

\* the three calls of the script's batch, in the order of lines 14, 17, 18
ScriptBatch(doubles) == <<SwapCall, SortCall(doubles, TRUE), SortCall(doubles, FALSE)>>

(* ------------------------------- claims ------------------------------- *)
\* C1: a batch of N appended calls, dispatched with a completed round trip,
\* yields a response of exactly N elements, element i being the server's
\* result (value or fault) for the i-th appended call; when the script's loop
\* ends, the three printed results are those of swapTwoIntegers(42, -73),
\* sortSomeDoubles(someDoubles, True), sortSomeDoubles(someDoubles, False),
\* in this order.
C1_ResponseInAppendOrder ==
    [][/\ (DispatchReturnStep /\ lastReply'.status = "ok") =>
              /\ Len(results') = Len(hist)
              /\ \A k \in 1..Len(hist) : results'[k] \in ServerItems(hist[k])
       /\ (client = "script" /\ pc' = "l26") =>
              /\ hist' = ScriptBatch(someDoubles')
              /\ Len(out') = 3
              /\ \A k \in 1..3 : out'[k] \in ServerValues(ScriptBatch(someDoubles')[k])
      ]_vars

\* C1 witness: the script's loop has ended with three results printed, the
\* two sorted lists differing
C1_Witness ==
    /\ client = "script"
    /\ pc = "l26"
    /\ Len(out) = 3
    /\ out[2] # out[3]

\* C2 as stated: in the script, a fault at one position of the response does
\* not keep the results of the other positions from being obtained (printed),
\* also those after it.
C2_AllValuesPrinted ==
    (client = "script" /\ exitCode # -1) =>
        \A j \in 1..Len(results) :
            results[j].kind = "list" =>
                \E k \in 1..Len(out) : out[k] = results[j].value

\* C2 amended: every position of the response carries the value or the fault
\* of its own call, and an indexed access to position j yields exactly that,
\* whatever the other positions hold; the script's for loop however ends with
\* the uncaught fault of the first faulting position, so the script prints
\* exactly the results before it, and reaches line 26 only when no position
\* faulted.
C2_FaultEndsIteration ==
    [][/\ (GetItemStep /\ got'.pos \in 0..(Len(results) - 1)) =>
              LET item == results[got'.pos + 1] IN
              IF item.kind = "list"
              THEN exc' = NoExc /\ got'.value = item.value
              ELSE exc' = Fault(item.faultCode, item.faultString)
       /\ (client = "script" /\ pc' = "failed" /\ failedAt' = "l20i") =>
              /\ FirstFault(results') <= Len(results')
              /\ Len(out') = FirstFault(results') - 1
              /\ \A k \in 1..Len(out') : out'[k] = results'[k].value
              /\ exc' = Fault(results'[FirstFault(results')].faultCode,
                              results'[FirstFault(results')].faultString)
       /\ (client = "script" /\ pc' = "l26") =>
              /\ FirstFault(results') = Len(results') + 1
              /\ Len(out') = Len(results')
              /\ \A k \in 1..Len(out') : out'[k] = results'[k].value
      ]_vars

\* C2 witness: the script stopped at a fault in position 2, with position 1
\* printed and position 3 a value that is never printed
C2_Witness ==
    /\ client = "script"
    /\ pc = "failed"
    /\ failedAt = "l20i"
    /\ Len(results) = 3
    /\ results[2].kind = "dict"
    /\ results[3].kind = "list"
    /\ Len(out) = 1

\* C3: appending to a batch performs no network I/O, so nothing has been sent
\* before dispatch; dispatch sends exactly one request, which holds all the
\* accumulated calls in append order (the script's three calls at line 20).
C3_NoIoBeforeDispatch ==
    [][/\ AppendStep => (sent' = sent /\ net' = net)
       /\ (client = "script" /\ pc' \in {"l7", "l12", "l14", "l16", "l17", "l18", "l20"}) =>
              (sent' = << >> /\ net' = << >>)
       /\ DispatchStep =>
              /\ sent' = Append(sent, [url |-> endpoint, methodName |-> "system.multicall",
                                       params |-> << >>, calls |-> hist])
              /\ net' = <<sent'[Len(sent')]>>
       /\ (client = "script" /\ pc' = "l20w") =>
              /\ Len(sent') = 1
              /\ sent'[1].calls = ScriptBatch(someDoubles')
      ]_vars

\* C3 witness: the script has just dispatched: one request, three calls
C3_Witness ==
    /\ client = "script"
    /\ pc = "l20w"
    /\ Len(sent) = 1
    /\ Len(sent[1].calls) = 3
    /\ Len(hist) = 3

\* C4 as stated: a batch is dispatched at most once; a second dispatch is
\* refused instead of sending a second request.
C4_SingleUse == Cardinality(MultiSent) <= 1

\* C4 amended: a batch is created empty and changes only by append; dispatch
\* neither consumes nor locks it: every dispatch, a repeated one included,
\* leaves the call list as it is and sends one request carrying all of it,
\* and no InvalidStateError is raised.  The script dispatches its batch
\* exactly once.
C4_Redispatchable ==
    [][/\ call_list' # call_list =>
              \E call \in ApiCalls \cup {SwapCall, SortCall(someDoubles, TRUE),
                                         SortCall(someDoubles, FALSE)} :
                  call_list' = Append(call_list, call)
       /\ pc' = "l14" => call_list' = << >>
       /\ DispatchStep =>
              /\ call_list' = call_list
              /\ sent' = Append(sent, MultiCallRequest(endpoint, call_list))
       /\ exc'.type # "InvalidStateError"
       /\ client = "script" =>
              /\ Cardinality(MultiSent') <= 1
              /\ pc' \in {"l20w", "l20i", "l21", "l26", "l26w", "l27", "done"} =>
                     Cardinality(MultiSent') = 1
      ]_vars

\* C4 witness: the arbitrary caller dispatched a non-empty batch twice, and
\* the same request went out twice
C4_Witness ==
    /\ client = "any"
    /\ Len(sent) = 2
    /\ MultiSent = {1, 2}
    /\ sent[1] = sent[2]
    /\ Len(sent[1].calls) > 0

\* C5 as stated: dispatching an empty batch never ends in an error (and
\* yields an empty response).
C5_EmptyNeverFails ==
    [][(DispatchReturnStep /\ Head(net).calls = << >>) =>
           (exc' = NoExc /\ results' = << >>)]_vars

\* C5 amended: dispatching an empty batch performs exactly one round trip;
\* when that round trip completes the response is empty and no error is
\* raised; the only errors are those of the round trip itself (transport
\* failure, undecodable reply, a fault for system.multicall as a whole).
C5_EmptyDispatch ==
    [][/\ (DispatchStep /\ call_list = << >>) =>
              /\ Len(sent') = Len(sent) + 1
              /\ sent'[Len(sent')].calls = << >>
              /\ Len(net') = 1
       /\ (DispatchReturnStep /\ Head(net).calls = << >>) =>
              /\ net' = << >>
              /\ results' = << >>
              /\ lastReply'.status = "ok" => exc' = NoExc
              /\ exc' # NoExc =>
                     /\ lastReply'.status \in {"transport", "protocol", "fault"}
                     /\ exc' = RequestOutcome(lastReply')
      ]_vars

\* C5 witness: an empty batch was dispatched and answered by an empty response
C5_Witness ==
    /\ client = "any"
    /\ pc = "api"
    /\ Len(sent) = 1
    /\ sent[1].methodName = "system.multicall"
    /\ sent[1].calls = << >>
    /\ lastReply.status = "ok"
    /\ results = << >>
    /\ exc = NoExc

\* C6: in the script no failure is swallowed: a step that fails ends the
\* script at that step with exit status 1, nothing is sent again and no later
\* statement runs (after a failed dispatch or a fault met by the loop the
\* superDynamicMethod request is never sent); exit status 0 is reached only
\* when every statement completed.
C6_FailuresTerminate ==
    [][client = "script" =>
        /\ pc \notin {"failed", "done"}
        /\ exc' # NoExc => (pc' = "failed" /\ exitCode' = 1 /\ failedAt' = pc)
        /\ exitCode' = 1 => (pc' = "failed" /\ exc' # NoExc)
        /\ lastReply'.status = "fault" =>
               /\ pc' = "failed"
               /\ exc'.type = "RemoteFault"
               /\ exc'.faultCode = lastReply'.faultCode
               /\ exc'.faultString = lastReply'.faultString
        /\ lastReply'.status = "transport" =>
               (pc' = "failed" /\ exc'.type = "TransportError")
        /\ lastReply'.status = "protocol" =>
               (pc' = "failed" /\ exc'.type = "ProtocolError")
        /\ pc' # "failed" => idx' < FirstFault(results')
        /\ pc' = "failed" =>
               /\ net' = << >>
               /\ failedAt' \in {"l7", "l20w", "l20i", "l26w"}
               /\ failedAt' = "l7" => (sent' = << >> /\ out' = << >>)
               /\ failedAt' \in {"l20w", "l20i"} =>
                      (Len(sent') = 1 /\ sent'[1].methodName = "system.multicall")
               /\ failedAt' = "l26w" =>
                      /\ Len(sent') = 2
                      /\ sent'[2].methodName = "superDynamicMethod"
                      /\ Len(out') = 3
        /\ exitCode' = 0 =>
               /\ pc' = "done"
               /\ exc' = NoExc
               /\ failedAt' = ""
               /\ lastReply'.status = "ok"
               /\ Len(sent') = 2
               /\ Len(results') = 3
               /\ FirstFault(results') = 4
               /\ Len(out') = 4
      ]_vars

\* C6 witness: the dispatch failed in transport; the script ended there
C6_Witness ==
    /\ client = "script"
    /\ pc = "failed"
    /\ failedAt = "l20w"
    /\ exc.type = "TransportError"
    /\ exitCode = 1
    /\ Len(sent) = 1

C8_Endpoint ==
    (client = "script" /\ pc # "l5") =>
        LET expected == IF Len(argv) >= 2 THEN argv[2] ELSE "http://localhost:8000"
        IN  /\ endpoint = expected
            /\ \A k \in 1..Len(sent) : sent[k].url = expected

\* C8 witness: two different arguments were given and both requests were sent
C8_Witness ==
    /\ client = "script"
    /\ pc = "done"
    /\ Len(argv) = 3
    /\ argv[3] # argv[2]
    /\ Len(sent) = 2

\* C9: against a server that sorts ascending for True and descending for
\* False, the two sortSomeDoubles calls of the batch carry the same list of
\* five doubles, and the script obtains for them a non-decreasing and a
\* non-increasing permutation of that list, after the pair (-73, 42) for
\* swapTwoIntegers(42, -73).
C9_SortedResults ==
    (client = "script" /\ Len(out) >= 3) =>
        /\ Len(someDoubles) = 5
        /\ sent[1].calls[2].params[1] = ArrV("double", someDoubles)
        /\ sent[1].calls[3].params[1] = ArrV("double", someDoubles)
        /\ sent[1].calls[2].params[2] = BoolV(TRUE)
        /\ sent[1].calls[3].params[2] = BoolV(FALSE)
        /\ out[1] = ArrV("int", <<-73, 42>>)
        /\ NonDecreasing(out[2].l) /\ IsPerm(out[2].l, someDoubles)
        /\ NonIncreasing(out[3].l) /\ IsPerm(out[3].l, someDoubles)

\* C9 witness: three results printed for a list that is not constant
C9_Witness ==
    /\ client = "script"
    /\ Len(out) >= 3
    /\ \E j, k \in 1..Len(someDoubles) : someDoubles[j] # someDoubles[k]
    /\ someDoubles # out[2].l
    /\ someDoubles # out[3].l

\* C10: at most one round trip is in flight at any time; a run of the script
\* that completes performs exactly two, the multicall first, whose three
\* results are all printed before the superDynamicMethod request is sent, and
\* the result of that request is printed last.
C10_OneRoundTripAtATime ==
    /\ Len(net) <= 1
    /\ client = "script" =>
          /\ Len(sent) <= 2
          /\ Len(sent) >= 1 => sent[1].methodName = "system.multicall"
          /\ Len(sent) = 2 =>
                /\ sent[2].methodName = "superDynamicMethod"
                /\ Len(results) = 3
                /\ Len(out) >= 3
                /\ \A k \in 1..3 : out[k] = results[k].value
          /\ pc = "done" =>
                /\ Len(sent) = 2
                /\ net = << >>
                /\ Len(out) = 4
                /\ out[4] = result
                /\ result = lastReply.value

\* C10 witness: the script completed
C10_Witness ==
    /\ client = "script"
    /\ pc = "done"
    /\ exitCode = 0
    /\ Len(out) = 4

====
